---- MODULE Spec2Model ----
(***************************************************************************)
(* A model of the block prefetcher of libkbfs (src/libkbfs/prefetcher.go). *)
(*                                                                         *)
(* The worker goroutine `run` owns two maps, `prefetches` (the active      *)
(* prefetch forest) and `rescheduled` (backoff state of deferred top       *)
(* blocks), and serves three unbounded queues: requests, cancels and       *)
(* reschedules.  One action of the model is one public call, one timer     *)
(* callback, one retrieval completion, or one whole iteration of the       *)
(* worker's select loop.                                                   *)
(***************************************************************************)
EXTENDS Integers, Sequences, FiniteSets, TLC

VARIABLES
    topo,                  \* the block tree the run is about (never changes)
    prefetches,            \* p.prefetches: block ID -> prefetch record
    rescheduled,           \* p.rescheduled: block ID -> rescheduledPrefetch
    prefetchRequestCh,     \* p.prefetchRequestCh (FIFO)
    prefetchCancelCh,      \* p.prefetchCancelCh (FIFO)
    prefetchRescheduleCh,  \* p.prefetchRescheduleCh (FIFO)
    inFlightFetches,       \* retrievals issued by request() and not yet finished
    cache,                 \* prefetch status of each block in the block caches
    fetched,               \* blocks whose retrieval the worker has processed
    phase,                 \* running / shutdown / almostDone / shuttingDown / done
    panicked,              \* "none", or the panic that ended the process
    budget,                \* what the environment may still do in this run
    completed,             \* blocks written Finished by completePrefetch, in order (scenario runs)
    trace,                 \* block IDs of the requests the worker has handled (scenario runs)
    waiters,               \* the worker's answers to wait queries: block ID and signal
    timers                 \* block ID -> backoff timers set and neither fired nor stopped

vars == <<topo, prefetches, rescheduled, prefetchRequestCh, prefetchCancelCh,
          prefetchRescheduleCh, inFlightFetches, cache, fetched, phase, panicked,
          budget, completed, trace, waiters, timers>>

(***************************************************************************)
(* Bounds of the model.                                                    *)
(***************************************************************************)
\* What the environment does to the prefetcher in one run, in all: top-level
\* ProcessBlockForPrefetch calls and CancelPrefetch calls made by users,
\* retrievals and cache writes that fail, and answers of the disk cache that
\* it has no room.
MaxEnv == 3
\* NextBackOff calls after which the backoff reports backoff.Stop
MaxBackOff == 1

(***************************************************************************)
(* Block pointers and block trees.  A pointer is <<ID, RefNonce>>.  Blocks *)
(* are content addressed: a block's children are a function of its ID.     *)
(***************************************************************************)
Ptr(id, nonce) == <<id, nonce>>

\* The children of each block, in the order the block lists them.
\*   chain:     r -> {a -> {b}, t}
\*   depth:     a -> {b -> {c, d}, e -> {f, g}}          (run's doc comment)
\*   midflight: a -> {b}, a2 -> {b, c}                   (run's doc comment)
\*   nonces:    p1 -> {x under n1}, g -> {p2 -> {x under n2}}
\*   diamond:   a -> {b -> {d}, c -> {d}}, d -> {l}      (excluded by the doc comment)
ChildrenOf(t) ==
    CASE t = "chain" ->
           [r |-> <<Ptr("a", "n0"), Ptr("t", "n0")>>, a |-> <<Ptr("b", "n0")>>,
            b |-> <<>>, t |-> <<>>]
      [] t = "depth" ->
           [a |-> <<Ptr("b", "n0"), Ptr("e", "n0")>>,
            b |-> <<Ptr("c", "n0"), Ptr("d", "n0")>>,
            e |-> <<Ptr("f", "n0"), Ptr("g", "n0")>>,
            c |-> <<>>, d |-> <<>>, f |-> <<>>, g |-> <<>>]
      [] t = "midflight" ->
           [a |-> <<Ptr("b", "n0")>>, a2 |-> <<Ptr("b", "n0"), Ptr("c", "n0")>>,
            b |-> <<>>, c |-> <<>>]
      [] t = "nonces" ->
           [p1 |-> <<Ptr("x", "n1")>>, g |-> <<Ptr("p2", "n0")>>,
            p2 |-> <<Ptr("x", "n2")>>, x |-> <<>>]
      [] t = "diamond" ->
           [a |-> <<Ptr("b", "n0"), Ptr("c", "n0")>>, b |-> <<Ptr("d", "n0")>>,
            c |-> <<Ptr("d", "n0")>>, d |-> <<Ptr("l", "n0")>>, l |-> <<>>]
      [] t = "tower" ->
           [r |-> <<Ptr("a", "n0")>>, a |-> <<Ptr("b", "n0")>>,
            b |-> <<Ptr("c", "n0")>>, c |-> <<>>]

Blocks(t) == DOMAIN ChildrenOf(t)

Range(s) == {s[i] : i \in DOMAIN s}

\* The pointers under which a block of the tree is referenced; a root is
\* referenced under the default nonce.
PtrsOf(t) ==
    LET kids == UNION {Range(ChildrenOf(t)[b]) : b \in Blocks(t)}
    IN  kids \cup {Ptr(b, "n0") : b \in {x \in Blocks(t) : \A k \in kids : k[1] # x}}

\* Block.IsTail: no child worth prefetching.
IsTail(t, id) == ChildrenOf(t)[id] = <<>>

\* The blocks of the subtree under id, id included.
RECURSIVE Subtree(_, _)
Subtree(t, id) ==
    {id} \cup UNION {Subtree(t, k[1]) : k \in Range(ChildrenOf(t)[id])}

(***************************************************************************)
(* BlockRequestAction: a bundle of policy flags.                           *)
(***************************************************************************)
BlockRequestSolo == {}
BlockRequestWithPrefetch == {"tracked", "prefetch"}
BlockRequestPrefetchUntilFull == {"tracked", "prefetch", "stopIfFull"}
BlockRequestWithDeepSync == {"tracked", "prefetch", "sync", "deep"}

Combine(a1, a2) == a1 \cup a2
Prefetch(act, t, id) == "prefetch" \in act \/ (IsTail(t, id) /\ "tracked" \in act)
Sync(act) == "sync" \in act
DeepSync(act) == "deep" \in act
StopIfFull(act) == "stopIfFull" \in act
\* Children of a block are prefetched in turn only under a deep sync.
ChildAction(act) == IF DeepSync(act) THEN act ELSE act \ {"prefetch", "sync"}

(***************************************************************************)
(* Records.                                                                *)
(***************************************************************************)
\* prefetchRequest; `wait` stands for a non-nil sendCh, `caller` for the
\* context of the call that made the request.
Req(ptr, status, action) ==
    [ptr |-> ptr, prefetchStatus |-> status, action |-> action, wait |-> FALSE,
     caller |-> "live"]

\* newPrefetch: parents is a set of <<RefNonce, parent pointer>>; a RefNonce
\* is a key of the Go map exactly when some pair carries it (the walks and
\* request() never leave an empty bucket behind).
newPrefetch(count, triggered, req) ==
    [subtreeBlockCount |-> count, subtreeTriggered |-> triggered, req |-> req,
     parents |-> {}]

Bucket(pre, nonce) == {e[2] : e \in {x \in pre.parents : x[1] = nonce}}
NoncesOf(pre) == {e[1] : e \in pre.parents}

MapDel(m, k) == [x \in DOMAIN m \ {k} |-> m[x]]
MapPut(m, k, v) == [x \in DOMAIN m \cup {k} |-> IF x = k THEN v ELSE m[x]]

(***************************************************************************)
(* The environment's budget: `moves` is what it may still do in all, and   *)
(* `user`, `cancel`, `fail`, `noRoom` what it may still do of each kind.   *)
(* A working state counts in `fails` and `rooms` what an event has used.   *)
(***************************************************************************)
MayFail(moves, fails) == budget.moves > moves /\ budget.fail > fails
MayBeFull(moves, rooms) == budget.moves > moves /\ budget.noRoom > rooms
Spend(fails, rooms) ==
    [budget EXCEPT !.moves = @ - (fails + rooms), !.fail = @ - fails,
                   !.noRoom = @ - rooms]

(***************************************************************************)
(* The worker's working state during one event: the two maps, the caches,  *)
(* the retrievals it issued, the completions it wrote, and whether it has  *)
(* panicked.  Every walk maps such a state to the set of states it may end *)
(* in (Go iterates maps in an unspecified order; a retrieval may fail).    *)
(***************************************************************************)
Work ==
    [pf |-> prefetches, rs |-> rescheduled, cache |-> cache,
     inflight |-> inFlightFetches, resched |-> prefetchRescheduleCh,
     done |-> <<>>, closed |-> <<>>, panic |-> "none", fails |-> 0, rooms |-> 0,
     num |-> 0, timers |-> timers]

\* clearRescheduleState that forgets the timer without stopping it.
clearRescheduleState_noStop(S, blockID) ==
    IF blockID \in DOMAIN S.rs THEN [S EXCEPT !.rs[blockID].timer = "nil"] ELSE S

\* clearRescheduleState: stop the backoff timer of the block's entry, if it
\* has one, and forget it; the entry stays.  Stopping a timer that has
\* fired changes nothing.
clearRescheduleState(S, blockID) ==
    IF blockID \in DOMAIN S.rs
    THEN [S EXCEPT !.rs[blockID].timer = "nil",
                   !.timers[blockID] =
                       IF S.rs[blockID].timer = "armed" THEN @ - 1 ELSE @]
    ELSE S

\* completePrefetch that gives up before it removes the record when the
\* final retrieval or the cache write fails.
completePrefetch_failKeepsRecord(numBlocks, blockID, S) ==
    LET c == S.pf[blockID].subtreeBlockCount - numBlocks
        gone == [clearRescheduleState(S, blockID) EXCEPT
                          !.pf = MapDel(@, blockID),
                          !.rs = MapDel(@, blockID),
                          !.closed = Append(@, <<blockID, "complete">>)]
    IN  IF c < 0
        THEN {[S EXCEPT !.pf[blockID].subtreeBlockCount = c,
                        !.panic = "completePrefetch overstepped its bounds"]}
        ELSE IF c # 0
        THEN {[S EXCEPT !.pf[blockID].subtreeBlockCount = c]}
        ELSE {[gone EXCEPT !.cache[blockID] = "Finished", !.done = Append(@, blockID)]}
             \cup (IF MayFail(S.fails + S.rooms, S.fails)
                   THEN {[S EXCEPT !.pf[blockID].subtreeBlockCount = c,
                                   !.fails = @ + 1]}
                   ELSE {})

\* completePrefetch(numBlocks) applied to one record.  A record that reaches
\* 0 leaves both maps and is closed; the block is then fetched once more and
\* written Finished, unless that retrieval or the cache write fails.
completePrefetch(numBlocks, blockID, S) ==
    LET c == S.pf[blockID].subtreeBlockCount - numBlocks
        gone == [clearRescheduleState(S, blockID) EXCEPT
                          !.pf = MapDel(@, blockID),
                          !.rs = MapDel(@, blockID),
                          !.closed = Append(@, <<blockID, "complete">>)]
    IN  IF c < 0
        THEN {[S EXCEPT !.pf[blockID].subtreeBlockCount = c,
                        !.panic = "completePrefetch overstepped its bounds"]}
        ELSE IF c # 0
        THEN {[S EXCEPT !.pf[blockID].subtreeBlockCount = c]}
        ELSE {[gone EXCEPT !.cache[blockID] = "Finished", !.done = Append(@, blockID)]}
             \cup (IF MayFail(S.fails + S.rooms, S.fails) THEN {[gone EXCEPT !.fails = @ + 1]}
                   ELSE {})

\* decrementPrefetch with the subtraction left out.
decrementPrefetch_skipped(blockID, S) == S

decrementPrefetch(blockID, S) ==
    LET c == S.pf[blockID].subtreeBlockCount - 1
    IN  IF c < 0
        THEN [S EXCEPT !.pf[blockID].subtreeBlockCount = c,
                       !.panic = "decrementPrefetch overstepped its bounds"]
        ELSE [S EXCEPT !.pf[blockID].subtreeBlockCount = c]

\* The closure that adds nothing.
addBlocks_none(numBlocks, blockID, S) == S

\* The closure run passes at the end of a request: add numBlocks.
addBlocks(numBlocks, blockID, S) ==
    [S EXCEPT !.pf[blockID].subtreeBlockCount = @ + numBlocks]

\* cancelPrefetch that removes the record whatever buckets it has left.
cancelPrefetch_wholeRecord(ptr, S) ==
    [clearRescheduleState(S, ptr[1]) EXCEPT
              !.pf = MapDel(@, ptr[1]),
              !.rs = MapDel(@, ptr[1]),
              !.closed = Append(@, <<ptr[1], "cancel">>)]

\* cancelPrefetch: drop the pointer's RefNonce bucket; a record left with no
\* bucket leaves both maps and is closed.
cancelPrefetch(ptr, S) ==
    LET left == {e \in S.pf[ptr[1]].parents : e[1] # ptr[2]}
    IN  IF left # {}
        THEN [S EXCEPT !.pf[ptr[1]].parents = left]
        ELSE [clearRescheduleState(S, ptr[1]) EXCEPT
                       !.pf = MapDel(@, ptr[1]),
                       !.rs = MapDel(@, ptr[1]),
                       !.closed = Append(@, <<ptr[1], "cancel">>)]

\* rescheduleTopBlock without the delete(p.prefetches, blockID).
rescheduleTopBlock_keepsActive(blockID, S) ==
    LET pp == S.pf[blockID]
        rp == IF blockID \in DOMAIN S.rs THEN S.rs[blockID]
              ELSE [off |-> 0, timer |-> "nil", req |-> pp.req]
    IN  IF pp.parents # {}
        THEN [clearRescheduleState(S, blockID) EXCEPT
                       !.pf = MapDel(@, blockID),
                       !.rs = MapDel(@, blockID),
                       !.closed = Append(@, <<blockID, "cancel">>)]
        ELSE IF rp.timer # "nil" \/ rp.off >= MaxBackOff
        THEN [S EXCEPT !.rs = MapPut(@, blockID, rp)]
        ELSE [S EXCEPT !.rs = MapPut(@, blockID,
                 [off |-> rp.off + 1, timer |-> "armed", req |-> pp.req]),
                          !.timers[blockID] = @ + 1]

\* rescheduleTopBlock without the time.AfterFunc.
rescheduleTopBlock_neverArms(blockID, S) ==
    LET pp == S.pf[blockID]
        rp == IF blockID \in DOMAIN S.rs THEN S.rs[blockID]
              ELSE [off |-> 0, timer |-> "nil", req |-> pp.req]
    IN  IF pp.parents # {}
        THEN [clearRescheduleState(S, blockID) EXCEPT
                       !.pf = MapDel(@, blockID),
                       !.rs = MapDel(@, blockID),
                       !.closed = Append(@, <<blockID, "cancel">>)]
        ELSE [S EXCEPT !.pf = MapDel(@, blockID), !.rs = MapPut(@, blockID, rp),
                       !.closed = Append(@, <<blockID, "reschedule">>)]

\* rescheduleTopBlock.  A record with parents is cancelled under every one
\* of its RefNonces, which removes it whatever the order.  A top block moves
\* to `rescheduled`; its timer is armed unless one is already set or the
\* backoff has stopped.  The timer's closure holds a copy of the request.
rescheduleTopBlock(blockID, S) ==
    LET pp == S.pf[blockID]
        rp == IF blockID \in DOMAIN S.rs THEN S.rs[blockID]
              ELSE [off |-> 0, timer |-> "nil", req |-> pp.req]
        out == [S EXCEPT !.pf = MapDel(@, blockID),
                         !.closed = Append(@, <<blockID, "reschedule">>)]
    IN  IF pp.parents # {}
        THEN [clearRescheduleState(S, blockID) EXCEPT
                       !.pf = MapDel(@, blockID),
                       !.rs = MapDel(@, blockID),
                       !.closed = Append(@, <<blockID, "cancel">>)]
        ELSE IF rp.timer # "nil"
        THEN [out EXCEPT !.rs = MapPut(@, blockID, rp)]
        ELSE IF rp.off >= MaxBackOff
        THEN [out EXCEPT !.rs = MapPut(@, blockID, rp)]
        ELSE [out EXCEPT !.rs = MapPut(@, blockID,
                 [off |-> rp.off + 1, timer |-> "armed", req |-> pp.req]),
                          !.timers[blockID] = @ + 1]

\* The function a walk applies to each record it visits.
ApplyFn(fn, blockID, S) ==
    CASE fn.op = "complete"   -> completePrefetch(fn.n, blockID, S)
      [] fn.op = "decrement"  -> {decrementPrefetch(blockID, S)}
      [] fn.op = "add"        -> {addBlocks(fn.n, blockID, S)}
      [] fn.op = "reschedule" -> {rescheduleTopBlock(blockID, S)}

\* applyToParentsRecursive: visit every parent under every RefNonce, the
\* parents first, then apply the function to the record itself.  A parent
\* that is no longer in `prefetches` is deleted from the bucket.  A panic
\* ends the walk where it happens.
RECURSIVE applyToParentsRecursive(_, _, _)
RECURSIVE VisitBucket(_, _, _, _, _)
RECURSIVE VisitNonces(_, _, _, _)
\* The walk over one bucket without the delete of parents that are gone.
VisitBucket_keepsStale(fn, blockID, nonce, todo, S) ==
    IF S.panic # "none" \/ todo = {} THEN {S}
    ELSE UNION {
        IF pptr[1] \notin DOMAIN S.pf
        THEN VisitBucket(fn, blockID, nonce, todo \ {pptr}, S)
        ELSE UNION {VisitBucket(fn, blockID, nonce, todo \ {pptr}, s1) :
                    s1 \in applyToParentsRecursive(fn, pptr[1], S)}
        : pptr \in todo}

VisitBucket(fn, blockID, nonce, todo, S) ==
    IF S.panic # "none" \/ todo = {} THEN {S}
    ELSE UNION {
        IF pptr[1] \notin DOMAIN S.pf
        THEN VisitBucket(fn, blockID, nonce, todo \ {pptr},
                 [S EXCEPT !.pf[blockID].parents = @ \ {<<nonce, pptr>>}])
        ELSE UNION {VisitBucket(fn, blockID, nonce, todo \ {pptr}, s1) :
                    s1 \in applyToParentsRecursive(fn, pptr[1], S)}
        : pptr \in todo}

VisitNonces(fn, blockID, nonces, S) ==
    IF S.panic # "none" \/ nonces = {} THEN {S}
    ELSE UNION {
        UNION {VisitNonces(fn, blockID, nonces \ {n}, s1) :
               s1 \in VisitBucket(fn, blockID, n, Bucket(S.pf[blockID], n), S)}
        : n \in nonces}

\* The walk with the function applied to the record before its parents.
RECURSIVE VisitParentsAfter(_, _, _)
VisitParentsAfter(fn, todo, S) ==
    IF S.panic # "none" \/ todo = {} THEN {S}
    ELSE UNION {
        IF pptr[1] \notin DOMAIN S.pf
        THEN VisitParentsAfter(fn, todo \ {pptr}, S)
        ELSE UNION {VisitParentsAfter(fn, todo \ {pptr}, s1) :
                    s1 \in applyToParentsRecursive(fn, pptr[1], S)}
        : pptr \in todo}

applyToParentsRecursive_selfFirst(fn, blockID, S) ==
    UNION {VisitParentsAfter(fn, {e[2] : e \in S.pf[blockID].parents}, s) :
           s \in ApplyFn(fn, blockID, S)}

applyToParentsRecursive(fn, blockID, S) ==
    UNION {IF s.panic # "none" THEN {s} ELSE ApplyFn(fn, blockID, s) :
           s \in VisitNonces(fn, blockID, NoncesOf(S.pf[blockID]), S)}

\* applyToPtrParentsRecursive(p.cancelPrefetch, ptr, pre): the same walk over
\* the parents recorded under the pointer's RefNonce only.
RECURSIVE applyToPtrParentsRecursive(_, _)
RECURSIVE VisitPtrBucket(_, _, _)
VisitPtrBucket(ptr, todo, S) ==
    IF todo = {} THEN {S}
    ELSE UNION {
        IF pptr[1] \notin DOMAIN S.pf
        THEN VisitPtrBucket(ptr, todo \ {pptr},
                 [S EXCEPT !.pf[ptr[1]].parents = @ \ {<<ptr[2], pptr>>}])
        ELSE UNION {VisitPtrBucket(ptr, todo \ {pptr}, s1) :
                    s1 \in applyToPtrParentsRecursive(pptr, S)}
        : pptr \in todo}

applyToPtrParentsRecursive(ptr, S) ==
    {cancelPrefetch(ptr, s) :
     s \in VisitPtrBucket(ptr, Bucket(S.pf[ptr[1]], ptr[2]), S)}

\* request that records a parent only for a record it has just created.
request_firstParentOnly(S, ptr, parentPtr, isParentNew, action) ==
    LET id == ptr[1]
        isPrefetchWaiting == id \in DOMAIN S.pf
        pre == IF isPrefetchWaiting THEN S.pf[id]
               ELSE newPrefetch(1, FALSE, Req(ptr, "NoPrefetch", action))
        S1 == [S EXCEPT !.pf = MapPut(@, id, pre),
                        !.inflight = IF isPrefetchWaiting THEN @
                                     ELSE @ \cup {[ptr |-> ptr, action |-> action]}]
    IN  IF isPrefetchWaiting THEN S1
        ELSE [S1 EXCEPT !.pf[id].parents = @ \cup {<<ptr[2], parentPtr>>},
                        !.num = @ + pre.subtreeBlockCount]

\* request: record the parent -> child edge and fetch the child unless it
\* is already waiting under the same action.  S.num accumulates numBlocks.
request(S, ptr, parentPtr, isParentNew, action) ==
    LET id == ptr[1]
        isPrefetchWaiting == id \in DOMAIN S.pf
        pre0 == IF isPrefetchWaiting THEN S.pf[id]
                ELSE newPrefetch(1, FALSE, Req(ptr, "NoPrefetch", action))
        newAction == Combine(action, pre0.req.action)
        send == ~isPrefetchWaiting \/ pre0.req.action # newAction
        pre == IF send THEN [pre0 EXCEPT !.req.action = newAction] ELSE pre0
        S1 == [S EXCEPT !.pf = MapPut(@, id, pre),
                        !.inflight = IF send
                                     THEN @ \cup {[ptr |-> ptr, action |-> action]}
                                     ELSE @]
    IN  IF parentPtr[1] \notin DOMAIN S1.pf
        THEN [S1 EXCEPT !.panic = "prefetcher doesn't know about parent block"]
        ELSE IF <<ptr[2], parentPtr>> \notin pre.parents \/ isParentNew
        THEN [S1 EXCEPT !.pf[id].parents = @ \cup {<<ptr[2], parentPtr>>},
                        !.num = @ + pre.subtreeBlockCount]
        ELSE S1

\* prefetchIndirectFileBlock, prefetchIndirectDirBlock and
\* prefetchDirectDirBlock: request every child once, in the block's order.
RECURSIVE prefetchChildren(_, _, _, _, _, _)
prefetchChildren(S, kids, idsSeen, parentPtr, isPrefetchNew, action) ==
    IF kids = <<>> \/ S.panic # "none" THEN S
    ELSE IF Head(kids)[1] \in idsSeen
    THEN prefetchChildren(S, Tail(kids), idsSeen, parentPtr, isPrefetchNew, action)
    ELSE prefetchChildren(request(S, Head(kids), parentPtr, isPrefetchNew, action),
                          Tail(kids), idsSeen \cup {Head(kids)[1]}, parentPtr,
                          isPrefetchNew, action)

\* handlePrefetch: numBlocks is left in S.num; isTail is "no child".
handlePrefetch(S, pre, isPrefetchNew, action) ==
    prefetchChildren([S EXCEPT !.num = 0], ChildrenOf(topo)[pre.req.ptr[1]], {},
                     pre.req.ptr, isPrefetchNew, ChildAction(action))

\* A send in a select that also waits on p.shutdownCh: once Shutdown() has
\* closed the channel both cases are ready and Go picks either.
Sends == IF phase = "running" THEN {TRUE} ELSE BOOLEAN

\* The failed retrieval handled as a reason to give the record up.
requestError_dropsRecord(S, id) ==
    [S EXCEPT !.pf = MapDel(@, id), !.fails = @ + 1]

\* run: the block could not be retrieved; log it, nothing else to do.
requestError(S, id) == [S EXCEPT !.fails = @ + 1]

\* The short-circuit taking one block off, whatever the record counts.
finishedCount_one(pre) == 1

\* run, on a finished request of an active block: the walk completes with
\* the record's whole count, which removes the record.
finishedCount(pre) == pre.subtreeBlockCount

(***************************************************************************)
(* The request case of run's select loop, for a request taken from the     *)
(* queue: the set of states the worker may end the iteration in.  `ok` is  *)
(* the outcome of the solo retrieval, `room` the disk cache's answer,      *)
(* `sent` the outcome of reschedulePrefetch's select.                      *)
(***************************************************************************)
RequestOutcomes(req, ok, room, sent) ==
    LET id == req.ptr[1]
        isPrefetchWaiting == id \in DOMAIN prefetches
        pre == prefetches[id]
        S0 == clearRescheduleState(Work, id)
        newAction == Combine(pre.req.action, req.action)
        \* handlePrefetch and what follows it
        Trigger(S, rec, isPrefetchNew) ==
            LET S2 == handlePrefetch(S, rec, isPrefetchNew, req.action)
            IN  IF S2.panic # "none" THEN {S2}
                ELSE IF IsTail(topo, id)
                THEN applyToParentsRecursive([op |-> "complete", n |-> 0], id, S2)
                ELSE IF S2.num = 0 THEN {S2}
                ELSE applyToParentsRecursive([op |-> "add", n |-> S2.num], id, S2)
        \* the prefetch is in the tree and its subtree was triggered before
        Redundant(S) ==
            LET A == IF pre.subtreeBlockCount = 0
                     THEN applyToPtrParentsRecursive(req.ptr, S) ELSE {S}
            IN  IF newAction # pre.req.action
                THEN UNION {Trigger(IF id \in DOMAIN s.pf
                                    THEN [s EXCEPT !.pf[id].req.action = newAction]
                                    ELSE s,
                                    [pre EXCEPT !.req.action = newAction], FALSE) :
                            s \in A}
                ELSE A
        \* the prefetch is in the tree and has now been fetched
        Fetched(S) ==
            IF pre.subtreeBlockCount = 0
            THEN {[S EXCEPT !.panic = "prefetch was in the tree, wasn't triggered, but had a block count of 0"]}
            ELSE UNION {IF s.panic # "none" THEN {s}
                        ELSE Trigger([s EXCEPT !.pf[id].subtreeTriggered = TRUE,
                                               !.pf[id].req.action = newAction],
                                     pre, FALSE) :
                        s \in applyToParentsRecursive([op |-> "decrement"], id, S)}
        ActiveOrNew(S) ==
            IF isPrefetchWaiting
            THEN IF pre.subtreeTriggered THEN Redundant(S) ELSE Fetched(S)
            ELSE Trigger([S EXCEPT !.pf = MapPut(@, id, newPrefetch(0, TRUE, req))],
                         newPrefetch(0, TRUE, req), TRUE)
        \* stopIfNeeded when the disk cache has no room
        NoRoom(S) ==
            IF Sync(req.action)
            THEN {IF sent THEN [S EXCEPT !.resched = Append(@, req)] ELSE S}
            ELSE IF StopIfFull(req.action) THEN {S} ELSE ActiveOrNew(S)
    IN  IF req.wait THEN {S0}
        ELSE IF ~ok THEN {requestError(S0, id)}
        ELSE IF req.prefetchStatus = "Finished" \/ IsTail(topo, id)
        THEN IF isPrefetchWaiting
             THEN applyToParentsRecursive(
                      [op |-> "complete", n |-> finishedCount(pre)], id, S0)
             ELSE IF req.prefetchStatus # "Finished"
             THEN {[S0 EXCEPT !.cache[id] = "Finished"]}
                  \cup (IF MayFail(0, 0) THEN {[S0 EXCEPT !.fails = @ + 1]} ELSE {})
             ELSE {S0}
        ELSE IF ~Prefetch(req.action, topo, id)
        THEN IF isPrefetchWaiting /\ ~Prefetch(pre.req.action, topo, id)
             THEN applyToPtrParentsRecursive(req.ptr, S0)
             ELSE {S0}
        ELSE IF /\ req.prefetchStatus = "Triggered"
                /\ ~DeepSync(req.action)
                /\ isPrefetchWaiting
                /\ Sync(req.action) = Sync(pre.req.action)
                /\ StopIfFull(req.action) = StopIfFull(pre.req.action)
        THEN {S0}
        ELSE IF ~room THEN NoRoom([S0 EXCEPT !.rooms = @ + 1])
        ELSE ActiveOrNew(S0)

\* The cancel case of run's select loop.
CancelOutcomes(ptr) ==
    IF ptr[1] \notin DOMAIN prefetches THEN {Work}
    ELSE applyToPtrParentsRecursive(ptr, Work)

\* The reschedule case of run's select loop.
RescheduleOutcomes(req) ==
    LET id == req.ptr[1]
        S1 == IF id \notin DOMAIN prefetches
              THEN [Work EXCEPT !.pf = MapPut(@, id, newPrefetch(1, FALSE, req))]
              ELSE [Work EXCEPT !.pf[id].req = req]
    IN  applyToParentsRecursive([op |-> "reschedule"], id, S1)

(***************************************************************************)
(* ProcessBlockForPrefetch, as called by a user or by the retriever when a *)
(* retrieval finishes: the status passed is the one the caches hold.  The  *)
(* result is what the call may leave in the caches and the queues.         *)
(***************************************************************************)
ProcessBlockForPrefetch(ptr, action, used) ==
    LET id == ptr[1]
        req == Req(ptr, cache[id], action)
        base == [cache |-> cache, req |-> prefetchRequestCh,
                 cancel |-> prefetchCancelCh, resched |-> prefetchRescheduleCh,
                 fails |-> 0, rooms |-> 0]
        triggerPrefetch(B) ==
            {IF sent THEN [B EXCEPT !.req = Append(@, req)] ELSE B : sent \in Sends}
        cached == [base EXCEPT !.cache[id] = "Triggered"]
        full == [cached EXCEPT !.rooms = @ + 1]
    IN  IF cache[id] = "Finished" THEN triggerPrefetch(base)
        ELSE IF ~Prefetch(action, topo, id) THEN triggerPrefetch(base)
        ELSE (IF MayFail(used, 0)
              THEN {IF sent THEN [base EXCEPT !.fails = @ + 1,
                                              !.cancel = Append(@, ptr)]
                    ELSE [base EXCEPT !.fails = @ + 1] : sent \in Sends}
              ELSE {})
             \cup triggerPrefetch(cached)
             \cup (IF ~MayBeFull(used, 0) THEN {}
                   ELSE IF Sync(action)
                   THEN {IF sent THEN [full EXCEPT !.resched = Append(@, req)]
                         ELSE full : sent \in Sends}
                   ELSE IF StopIfFull(action) THEN {full}
                   ELSE triggerPrefetch(full))

\* The wait fast path answering with a record's waitCh whatever the block.
waitChannel_alwaysRecord(id, pf) == "open"

\* run, on a request with a sendCh: the record's waitCh if the block is
\* active, p.closedCh if it is not.
waitChannel(id, pf) == IF id \in DOMAIN pf THEN "open" ELSE "closedCh"

\* The answer the worker sends on req.sendCh.
WaitReply(req) ==
    IF req.wait
    THEN {[id |-> req.ptr[1], signal |-> waitChannel(req.ptr[1], prefetches)]}
    ELSE {}

\* What the caller takes from its reply channel c (capacity 1, so the
\* worker's send never waits for it).  With a live context it takes the
\* answer; with a cancelled one ctx.Done() is ready too: the caller has
\* returned ctx.Err() before the answer, or both cases of the second select
\* are ready and Go picks either.
Receives(req) ==
    IF req.caller = "live" THEN {WaitReply(req)} ELSE {WaitReply(req), {}}

\* Close raising the wait signal only for a record whose count reached 0.
Raise_completionOnly(ws, closed) ==
    {IF w.signal = "open" /\ <<w.id, "complete">> \in Range(closed)
     THEN [w EXCEPT !.signal = "complete"] ELSE w : w \in ws}

\* prefetch.Close: closing the records in `closed` raises the wait signal
\* held by every answer that carries one of them.
Raise(ws, closed) ==
    {IF w.signal = "open" /\ \E i \in DOMAIN closed : closed[i][1] = w.id
     THEN [w EXCEPT !.signal =
              closed[CHOOSE i \in DOMAIN closed :
                        /\ closed[i][1] = w.id
                        /\ \A j \in 1..(i - 1) : closed[j][1] # w.id][2]]
     ELSE w : w \in ws}

Alive == panicked = "none"
Serving == Alive /\ phase # "done"

Log(old, new) == IF budget.log THEN old \o new ELSE old

\* What a worker event leaves behind.
Commit(S) ==
    /\ prefetches' = S.pf
    /\ rescheduled' = S.rs
    /\ timers' = S.timers
    /\ cache' = S.cache
    /\ inFlightFetches' = S.inflight
    /\ prefetchRescheduleCh' = S.resched
    /\ panicked' = S.panic
    /\ budget' = Spend(S.fails, S.rooms)
    /\ completed' = Log(completed, S.done)

\* What a call of ProcessBlockForPrefetch leaves behind.
Called(B) ==
    /\ cache' = B.cache
    /\ prefetchRequestCh' = B.req
    /\ prefetchCancelCh' = B.cancel
    /\ prefetchRescheduleCh' = B.resched

(***************************************************************************)
(* Actions.                                                                *)
(***************************************************************************)
\* A user-driven fetch of a block finished: ProcessBlockForPrefetch.
UserRequest ==
    /\ Alive /\ budget.moves > 0 /\ budget.user > 0
    /\ \E ptr \in budget.ptrs, action \in budget.acts :
         \E B \in ProcessBlockForPrefetch(ptr, action, 1) :
            /\ Called(B)
            /\ budget' = [Spend(B.fails, B.rooms) EXCEPT !.moves = @ - 1,
                                                         !.user = @ - 1]
    /\ UNCHANGED <<topo, prefetches, rescheduled, inFlightFetches, fetched, phase,
                   panicked, completed, trace, waiters, timers>>

\* A retrieval issued by request() finished: the retriever hands the block
\* to ProcessBlockForPrefetch under the action it was requested with.
FetchDone ==
    /\ Alive
    /\ \E f \in inFlightFetches :
         /\ inFlightFetches' = inFlightFetches \ {f}
         /\ \E B \in ProcessBlockForPrefetch(f.ptr, f.action, 0) :
               /\ Called(B)
               /\ budget' = Spend(B.fails, B.rooms)
    /\ UNCHANGED <<topo, prefetches, rescheduled, fetched, phase, panicked,
                   completed, trace, waiters, timers>>

\* CancelPrefetch.
UserCancel ==
    /\ Alive /\ budget.moves > 0 /\ budget.cancel > 0
    /\ \E ptr \in budget.ptrs, sent \in Sends :
         prefetchCancelCh' = IF sent THEN Append(prefetchCancelCh, ptr)
                             ELSE prefetchCancelCh
    /\ budget' = [budget EXCEPT !.moves = @ - 1, !.cancel = @ - 1]
    /\ UNCHANGED <<topo, prefetches, rescheduled, prefetchRequestCh,
                   prefetchRescheduleCh, inFlightFetches, cache, fetched, phase,
                   panicked, completed, trace, waiters, timers>>

\* WaitChannelForBlockPrefetch (the caller's own context stays live): the
\* query joins the request queue unless the select takes p.shutdownCh and
\* the call returns "Already shut down".
UserWait ==
    /\ Alive /\ budget.moves > 0 /\ budget.wait > 0
    /\ \E ptr \in budget.ptrs, sent \in Sends :
         prefetchRequestCh' =
             IF sent
             THEN Append(prefetchRequestCh,
                         [Req(ptr, "NoPrefetch", BlockRequestSolo) EXCEPT !.wait = TRUE])
             ELSE prefetchRequestCh
    /\ budget' = [budget EXCEPT !.moves = @ - 1, !.wait = @ - 1]
    /\ UNCHANGED <<topo, prefetches, rescheduled, prefetchCancelCh,
                   prefetchRescheduleCh, inFlightFetches, cache, fetched, phase,
                   panicked, completed, trace, waiters, timers>>

\* WaitChannelForBlockPrefetch called with a context that is cancelled by
\* the time of its first select: the case <-ctx.Done() is ready next to
\* the send, Go picks either, and so the query joins the request queue or
\* does not.
UserWaitCancelled ==
    /\ Alive /\ budget.moves > 0 /\ budget.wait > 0
    /\ \E ptr \in budget.ptrs, sent \in BOOLEAN :
         prefetchRequestCh' =
             IF sent
             THEN Append(prefetchRequestCh,
                         [Req(ptr, "NoPrefetch", BlockRequestSolo)
                          EXCEPT !.wait = TRUE, !.caller = "cancelled"])
             ELSE prefetchRequestCh
    /\ budget' = [budget EXCEPT !.moves = @ - 1, !.wait = @ - 1]
    /\ UNCHANGED <<topo, prefetches, rescheduled, prefetchCancelCh,
                   prefetchRescheduleCh, inFlightFetches, cache, fetched, phase,
                   panicked, completed, trace, waiters, timers>>

\* The backoff timer armed by rescheduleTopBlock fires: triggerPrefetch.
TimerFire ==
    /\ Alive
    /\ \E id \in DOMAIN rescheduled, sent \in Sends :
         /\ rescheduled[id].timer = "armed"
         /\ rescheduled' = [rescheduled EXCEPT ![id].timer = "fired"]
         /\ timers' = [timers EXCEPT ![id] = @ - 1]
         /\ prefetchRequestCh' = IF sent
                                 THEN Append(prefetchRequestCh, rescheduled[id].req)
                                 ELSE prefetchRequestCh
    /\ UNCHANGED <<topo, prefetches, prefetchCancelCh, prefetchRescheduleCh,
                   inFlightFetches, cache, fetched, phase, panicked, budget,
                   completed, trace, waiters>>

\* run: case reqInt := <-p.prefetchRequestCh.Out()
WorkerRequest ==
    /\ Serving /\ prefetchRequestCh # <<>>
    /\ LET req == Head(prefetchRequestCh)
       IN  \E ok \in (IF MayFail(0, 0) /\ ~req.wait THEN BOOLEAN ELSE {TRUE}),
              room \in (IF MayBeFull(0, 0) THEN BOOLEAN ELSE {TRUE}),
              sent \in Sends :
             /\ \E S \in RequestOutcomes(req, ok, room, sent) :
                   /\ Commit(S)
                   /\ \E got \in Receives(req) :
                         waiters' = Raise(waiters, S.closed) \cup got
                   \* an answer that was not asked for, or a send that was
                   \* not made, is no choice of its own
                   /\ room \/ S.rooms > 0
                   /\ sent \/ (S.rooms > 0 /\ Sync(req.action))
             /\ fetched' = IF ok /\ ~req.wait THEN fetched \cup {req.ptr[1]}
                           ELSE fetched
             /\ trace' = IF req.wait THEN trace ELSE Log(trace, <<req.ptr[1]>>)
    /\ prefetchRequestCh' = Tail(prefetchRequestCh)
    /\ UNCHANGED <<topo, prefetchCancelCh, phase>>

\* run: case ptrInt := <-p.prefetchCancelCh.Out()
WorkerCancel ==
    /\ Serving /\ prefetchCancelCh # <<>>
    /\ \E S \in CancelOutcomes(Head(prefetchCancelCh)) :
         /\ Commit(S)
         /\ waiters' = Raise(waiters, S.closed)
    /\ prefetchCancelCh' = Tail(prefetchCancelCh)
    /\ UNCHANGED <<topo, prefetchRequestCh, fetched, phase, trace>>

\* run: case reqInt := <-p.prefetchRescheduleCh.Out()
WorkerReschedule ==
    /\ Serving /\ prefetchRescheduleCh # <<>>
    /\ \E S \in RescheduleOutcomes(Head(prefetchRescheduleCh)) :
         /\ prefetches' = S.pf
         /\ rescheduled' = S.rs
         /\ timers' = S.timers
         /\ waiters' = Raise(waiters, S.closed)
    /\ prefetchRescheduleCh' = Tail(prefetchRescheduleCh)
    /\ UNCHANGED <<topo, prefetchRequestCh, prefetchCancelCh, inFlightFetches,
                   cache, fetched, phase, panicked, budget, completed, trace>>

\* close(p.shutdownCh): closing a closed channel panics.
closeShutdownCh(ph) ==
    IF ph = "running" THEN [phase |-> "shutdown", panic |-> "none"]
    ELSE [phase |-> ph, panic |-> "close of closed channel"]

\* p.shutdownOnce.Do on every call.
shutdownOnce_everyCall(ph) == closeShutdownCh(ph)

\* p.shutdownOnce.Do(func() { close(p.shutdownCh) }): the first call closes
\* the channel, which is what takes the prefetcher out of "running".
shutdownOnce(ph) ==
    IF ph = "running" THEN closeShutdownCh(ph) ELSE [phase |-> ph, panic |-> "none"]

\* Shutdown; every call returns p.doneCh.
Shutdown ==
    /\ Alive /\ budget.shutdown > 0
    /\ phase' = shutdownOnce(phase).phase
    /\ panicked' = shutdownOnce(phase).panic
    /\ budget' = [budget EXCEPT !.shutdown = @ - 1]
    /\ UNCHANGED <<topo, prefetches, rescheduled, prefetchRequestCh, prefetchCancelCh,
                   prefetchRescheduleCh, inFlightFetches, cache, fetched, completed,
                   trace, waiters, timers>>

\* shutdownLoop: after p.shutdownCh is closed and the retrievals in flight
\* have finished, send on p.almostDoneCh.
ShutdownLoop ==
    /\ Alive /\ phase = "shutdown" /\ inFlightFetches = {}
    /\ phase' = "almostDone"
    /\ UNCHANGED <<topo, prefetches, rescheduled, prefetchRequestCh, prefetchCancelCh,
                   prefetchRescheduleCh, inFlightFetches, cache, fetched, panicked,
                   budget, completed, trace, waiters, timers>>

\* run: case <-p.almostDoneCh
WorkerAlmostDone ==
    /\ Alive /\ phase = "almostDone"
    /\ phase' = "shuttingDown"
    /\ rescheduled' = [id \in DOMAIN rescheduled |->
                          [rescheduled[id] EXCEPT !.timer = "nil"]]
    /\ timers' = [id \in Blocks(topo) |->
                     IF id \in DOMAIN rescheduled /\ rescheduled[id].timer = "armed"
                     THEN timers[id] - 1 ELSE timers[id]]
    /\ UNCHANGED <<topo, prefetches, prefetchRequestCh, prefetchCancelCh,
                   prefetchRescheduleCh, inFlightFetches, cache, fetched, panicked,
                   budget, completed, trace, waiters>>

\* run: the loop returns once it is shutting down and every channel is empty.
WorkerExit ==
    /\ Alive /\ phase = "shuttingDown"
    /\ inFlightFetches = {} /\ prefetchRequestCh = <<>>
    /\ prefetchCancelCh = <<>> /\ prefetchRescheduleCh = <<>>
    /\ phase' = "done"
    /\ UNCHANGED <<topo, prefetches, rescheduled, prefetchRequestCh, prefetchCancelCh,
                   prefetchRescheduleCh, inFlightFetches, cache, fetched, panicked,
                   budget, completed, trace, waiters, timers>>

(***************************************************************************)
(* Specifications.                                                         *)
(***************************************************************************)
\* newBlockPrefetcher: empty maps and queues; nothing is cached yet.
Start(t, b) ==
    /\ topo = t
    /\ prefetches = <<>>
    /\ rescheduled = <<>>
    /\ prefetchRequestCh = <<>>
    /\ prefetchCancelCh = <<>>
    /\ prefetchRescheduleCh = <<>>
    /\ inFlightFetches = {}
    /\ cache = [id \in Blocks(t) |-> "NoPrefetch"]
    /\ fetched = {}
    /\ phase = "running"
    /\ panicked = "none"
    /\ budget = b
    /\ completed = <<>>
    /\ trace = <<>>
    /\ waiters = {}
    /\ timers = [id \in Blocks(t) |-> 0]

\* The environment of a run over tree t: m moves in all, of which at most
\* c cancels, f failures and n answers of "no room"; users request and
\* cancel the pointers ptrs, under the actions acts.
Env(m, c, f, n, ptrs, acts, shutdown, log) ==
    [moves |-> m, user |-> m, cancel |-> c, fail |-> f, noRoom |-> n, wait |-> 0,
     shutdown |-> shutdown, log |-> log, ptrs |-> ptrs, acts |-> acts]

\* Any user of the public API, over a forest.
Init ==
    \E t \in {"chain", "nonces"} :
        Start(t, Env(MaxEnv, MaxEnv, MaxEnv, MaxEnv, PtrsOf(t),
                     {BlockRequestWithPrefetch, BlockRequestWithDeepSync},
                     0, FALSE))

Next ==
    \/ UserRequest
    \/ FetchDone
    \/ UserCancel
    \/ TimerFire
    \/ WorkerRequest
    \/ WorkerCancel
    \/ WorkerReschedule

Spec == Init /\ [][Next]_vars

\* The depth-first scenario of run's doc comment: one deep sync of a, no
\* cancel, no failure, no cache pressure.
InitDepthFirst ==
    Start("depth", Env(1, 0, 0, 0, {Ptr("a", "n0")}, {BlockRequestWithDeepSync},
                       0, TRUE))

NextDepthFirst ==
    \/ UserRequest
    \/ FetchDone
    \/ WorkerRequest

SpecDepthFirst == InitDepthFirst /\ [][NextDepthFirst]_vars

\* A parent added mid-flight (run's doc comment): deep syncs of a and a2.
InitMidFlight ==
    Start("midflight", Env(2, 0, 0, 0, {Ptr("a", "n0"), Ptr("a2", "n0")},
                           {BlockRequestWithDeepSync}, 0, TRUE))

SpecMidFlight == InitMidFlight /\ [][NextDepthFirst]_vars

\* Reschedule under pressure: deep syncs of the top block r while the disk
\* cache may be full, and a shutdown.  The worker's select serves a
\* reschedule queue that stays non-empty, and a timer that stays armed fires.
InitPressure ==
    Start("chain", Env(MaxEnv, MaxEnv, 0, MaxEnv, {Ptr("r", "n0")},
                       {BlockRequestWithDeepSync}, 1, FALSE))

NextPressure ==
    \/ Next
    \/ Shutdown
    \/ ShutdownLoop
    \/ WorkerAlmostDone
    \/ WorkerExit

SpecPressure ==
    /\ InitPressure
    /\ [][NextPressure]_vars
    /\ WF_vars(TimerFire)
    /\ WF_vars(WorkerReschedule)

\* Waiting callers: deep syncs and cancels of r and a, wait queries for
\* them, and a disk cache that may be full.
InitWait ==
    Start("chain", [Env(MaxEnv, MaxEnv, 0, MaxEnv, {Ptr("r", "n0"), Ptr("a", "n0")},
                        {BlockRequestWithDeepSync}, 0, FALSE)
                    EXCEPT !.wait = MaxEnv])

NextWait ==
    \/ Next
    \/ UserWait

SpecWait == InitWait /\ [][NextWait]_vars

\* One producer: it calls ProcessBlockForPrefetch for r, as a deep sync,
\* and afterwards WaitChannelForBlockPrefetch for r; the disk cache may be
\* full.
InitAskThenWait ==
    Start("chain", [Env(MaxEnv, 0, 0, MaxEnv, {Ptr("r", "n0")},
                        {BlockRequestWithDeepSync}, 0, TRUE)
                    EXCEPT !.user = 1, !.wait = 1])

AskThenWait == budget.user = 0 /\ UserWait

NextAskThenWait ==
    \/ UserRequest
    \/ AskThenWait
    \/ FetchDone
    \/ TimerFire
    \/ WorkerRequest
    \/ WorkerReschedule

SpecAskThenWait == InitAskThenWait /\ [][NextAskThenWait]_vars

\* One producer: it calls ProcessBlockForPrefetch for r, as a deep sync,
\* and afterwards WaitChannelForBlockPrefetch for r or a with a context
\* that is cancelled; the disk cache may be full.
InitAbandon ==
    Start("chain", [Env(MaxEnv + 1, 0, 0, MaxEnv, {Ptr("r", "n0"), Ptr("a", "n0")},
                        {BlockRequestWithDeepSync}, 0, TRUE)
                    EXCEPT !.user = 1, !.wait = MaxEnv - 1])

AskThenAbandon == budget.user = 0 /\ UserWaitCancelled

NextAbandon ==
    \/ UserRequest
    \/ AskThenAbandon
    \/ FetchDone
    \/ TimerFire
    \/ WorkerRequest
    \/ WorkerReschedule

SpecAbandon == InitAbandon /\ [][NextAbandon]_vars

\* Shutdown, called any number of times, among deep syncs, cancels and wait
\* queries of r, while the disk cache may be full.
InitShutdown ==
    Start("chain", [Env(MaxEnv, MaxEnv, 0, MaxEnv, {Ptr("r", "n0")},
                        {BlockRequestWithDeepSync}, MaxEnv, FALSE)
                    EXCEPT !.wait = MaxEnv])

NextShutdown ==
    \/ NextPressure
    \/ UserWait

SpecShutdown == InitShutdown /\ [][NextShutdown]_vars

\* Blocks that are finished already: prefetches and deep syncs of r and a
\* and cancels of them, with retrievals and cache writes that may fail.
InitFinished ==
    Start("chain", Env(MaxEnv, MaxEnv, MaxEnv, 0, {Ptr("r", "n0"), Ptr("a", "n0")},
                       {BlockRequestWithPrefetch, BlockRequestWithDeepSync}, 0, TRUE))

NextFinished ==
    \/ UserRequest
    \/ FetchDone
    \/ UserCancel
    \/ WorkerRequest
    \/ WorkerCancel

SpecFinished == InitFinished /\ [][NextFinished]_vars

\* A prefetch left to run to its end: one request for the root a of the
\* tree of run's doc comment, as a prefetch or as a deep sync, and afterwards
\* a wait query for a; no cancel, no failure, room in the disk cache.  The
\* retriever finishes every retrieval and hands the block over, and the
\* worker serves its request queue.
InitToTheEnd ==
    Start("depth", [Env(2, 0, 0, 0, {Ptr("a", "n0")},
                        {BlockRequestWithPrefetch, BlockRequestWithDeepSync}, 0, FALSE)
                    EXCEPT !.user = 1, !.wait = 1])

NextToTheEnd ==
    \/ UserRequest
    \/ AskThenWait
    \/ FetchDone
    \/ WorkerRequest

SpecToTheEnd ==
    /\ InitToTheEnd
    /\ [][NextToTheEnd]_vars
    /\ WF_vars(FetchDone)
    /\ WF_vars(WorkerRequest)

\* A changed action: prefetches, prefetches until the cache is full and
\* deep syncs of r and a, and a cancel.
InitUpgrade ==
    Start("chain", [Env(MaxEnv + 1, 1, 0, 0, {Ptr("r", "n0"), Ptr("a", "n0")},
                        {BlockRequestWithPrefetch, BlockRequestPrefetchUntilFull,
                         BlockRequestWithDeepSync}, 0, FALSE)
                    EXCEPT !.user = MaxEnv])

SpecUpgrade == InitUpgrade /\ [][NextFinished]_vars

\* Deep syncs and cancels at every level of a tree that is four levels
\* deep.
InitTower ==
    Start("tower", [Env(MaxEnv + 2, MaxEnv - 1, 0, 0,
                        {Ptr("r", "n0"), Ptr("a", "n0"), Ptr("b", "n0")},
                        {BlockRequestWithDeepSync}, 0, FALSE)
                    EXCEPT !.user = MaxEnv])

SpecTower == InitTower /\ [][NextFinished]_vars

\* Cancels, wait queries and cache pressure over a block that is referenced
\* under two RefNonces.
InitCancelWalk ==
    Start("nonces", [Env(MaxEnv + 1, MaxEnv - 1, 0, 1,
                         {Ptr("p1", "n0"), Ptr("g", "n0"), Ptr("x", "n1")},
                         {BlockRequestWithDeepSync}, 0, FALSE)
                     EXCEPT !.wait = 1])

SpecCancelWalk == InitCancelWalk /\ [][NextWait]_vars

\* A full cache met more than once: two deep syncs of r, each of which may
\* find no room, and a cancel.
InitRetry ==
    Start("chain", [Env(MaxEnv + 1, 1, 0, MaxEnv, {Ptr("r", "n0")},
                        {BlockRequestWithDeepSync}, 0, FALSE)
                    EXCEPT !.user = MaxEnv - 1])

SpecRetry == InitRetry /\ [][Next]_vars

\* The diamond that run's doc comment rules out: d is reached from a through
\* b and through c.  Deep syncs of a, b and d.
InitDiamond ==
    Start("diamond", Env(MaxEnv - 1, 0, 0, 0,
                         {Ptr("a", "n0"), Ptr("b", "n0"), Ptr("d", "n0")},
                         {BlockRequestWithDeepSync}, 0, FALSE))

SpecDiamond ==
    /\ InitDiamond
    /\ [][NextDepthFirst]_vars
    /\ WF_vars(FetchDone)
    /\ WF_vars(WorkerRequest)

(***************************************************************************)
(* Properties.                                                             *)
(***************************************************************************)
Active == DOMAIN prefetches
Counters == [id \in Active |-> prefetches[id].subtreeBlockCount]
ParentIDs(pf, id) == {e[2][1] : e \in pf[id].parents}

\* C1: a block is written to the caches with status Finished only when every
\* block of its subtree has been fetched and processed by the worker; no
\* block is Finished while one of its descendants still awaits its fetch.
C1_FinishedOnlyWhenSubtreeFetched ==
    \A id \in Blocks(topo) :
        cache[id] = "Finished" => Subtree(topo, id) \subseteq fetched

\* C2: over a forest every active record's subtreeBlockCount stays >= 0 and
\* neither "overstepped its bounds" panic is ever reached.
C2_CountsNeverNegative ==
    /\ \A id \in Active : prefetches[id].subtreeBlockCount >= 0
    /\ panicked \notin {"completePrefetch overstepped its bounds",
                        "decrementPrefetch overstepped its bounds"}

\* C3 as stated: between worker events no block ID is a key of both the
\* active-prefetches map and the rescheduled map.
C3_ActiveAndRescheduledDisjoint == Active \cap DOMAIN rescheduled = {}

\* C3: a block that an event enters into the rescheduled map, or whose
\* backoff timer an event arms, is not active at the end of that event; the
\* entry itself stays when a later request makes the block active again.
C3_RescheduledBlockLeavesActive ==
    [][\A id \in DOMAIN rescheduled' :
          (\/ id \notin DOMAIN rescheduled
           \/ (rescheduled'[id].timer = "armed" /\ rescheduled[id].timer # "armed"))
          => id \notin DOMAIN prefetches']_vars

C3_Witness ==
    \E id \in DOMAIN rescheduled :
        /\ rescheduled[id].timer = "armed"
        /\ id \notin Active
        /\ id \in fetched

\* C4 as stated: between worker events every parent pointer of an active
\* record identifies an active record.
C4_ParentsAreActive ==
    \A id \in Active : ParentIDs(prefetches, id) \subseteq Active

\* C4: a parent pointer is recorded only for a parent that is active at the
\* end of the event, and the walk that starts at a record when its block
\* has been fetched leaves it with active parents only; in between, a
\* pointer may outlive its parent.
C4_ParentsActiveWhenRecordedAndWalked ==
    [][\A id \in DOMAIN prefetches' :
          /\ \A e \in prefetches'[id].parents :
                (id \notin Active \/ e \notin prefetches[id].parents)
                => e[2][1] \in DOMAIN prefetches'
          /\ (/\ id \in Active
              /\ ~prefetches[id].subtreeTriggered
              /\ prefetches'[id].subtreeTriggered
              /\ panicked' = "none")
             => ParentIDs(prefetches', id) \subseteq DOMAIN prefetches']_vars

C4_Witness ==
    \E id \in Active :
        /\ prefetches[id].subtreeTriggered
        /\ prefetches[id].parents # {}
        /\ ParentIDs(prefetches, id) \subseteq Active
        /\ \E gone \in fetched \ Active : cache[gone] # "Finished"

IsPrefix(s, t) == Len(s) <= Len(t) /\ s = SubSeq(t, 1, Len(s))
DepthFirstOrder == <<"a", "b", "c", "d", "e", "f", "g">>

\* C5: in the tree a->{b->{c,d}, e->{f,g}}, when the worker processes the
\* requests for a, b, c, d, e, f, g in that order, the counters of the
\* active records after the seven events are {a:2,b:1,e:1},
\* {a:3,b:2,c:1,d:1,e:1}, {a:2,b:1,d:1,e:1}, {a:1,e:1}, {a:2,e:2,f:1,g:1},
\* {a:1,e:1,g:1} and none.
C5_DepthFirstCounters ==
    /\ trace = <<"a">> =>
          Counters = [a |-> 2, b |-> 1, e |-> 1]
    /\ trace = <<"a", "b">> =>
          Counters = [a |-> 3, b |-> 2, c |-> 1, d |-> 1, e |-> 1]
    /\ trace = <<"a", "b", "c">> =>
          Counters = [a |-> 2, b |-> 1, d |-> 1, e |-> 1]
    /\ trace = <<"a", "b", "c", "d">> =>
          Counters = [a |-> 1, e |-> 1]
    /\ trace = <<"a", "b", "c", "d", "e">> =>
          Counters = [a |-> 2, e |-> 2, f |-> 1, g |-> 1]
    /\ trace = <<"a", "b", "c", "d", "e", "f">> =>
          Counters = [a |-> 1, e |-> 1, g |-> 1]
    /\ trace = DepthFirstOrder => Active = {}

C5_Witness == trace = DepthFirstOrder /\ Active = {} /\ cache["a"] = "Finished"

\* C6 as stated: with the requests processed in the order a, b, c, d, e, f,
\* g the blocks are completed in the order c, d, b, f, g, e, a.
C6_DescendantsCompleteFirst ==
    /\ IsPrefix(trace, DepthFirstOrder) =>
          IsPrefix(completed, <<"c", "d", "b", "f", "g", "e", "a">>)
    /\ trace = DepthFirstOrder =>
          completed = <<"c", "d", "b", "f", "g", "e", "a">>

\* C6: with the requests processed in the order a, b, c, d, e, f, g the
\* blocks are completed in the order c, b, d, f, a, e, g: within one
\* completion walk an ancestor is completed before its descendants.
C6_AncestorsCompleteFirst ==
    /\ IsPrefix(trace, DepthFirstOrder) =>
          IsPrefix(completed, <<"c", "b", "d", "f", "a", "e", "g">>)
    /\ trace = DepthFirstOrder =>
          completed = <<"c", "b", "d", "f", "a", "e", "g">>

C6_Witness ==
    /\ trace = DepthFirstOrder
    /\ completed = <<"c", "b", "d", "f", "a", "e", "g">>
    /\ \A id \in Blocks(topo) : cache[id] = "Finished"

\* What is left of a parent's record after a completion walk took n off it.
Decremented(id, n) ==
    IF prefetches[id].subtreeBlockCount = n
    THEN id \notin DOMAIN prefetches' /\ id \in Range(completed')
    ELSE /\ id \in DOMAIN prefetches'
         /\ prefetches'[id].subtreeBlockCount = prefetches[id].subtreeBlockCount - n

\* C7: after top-level requests for a (children {b}) and then a2 (children
\* {b, c}) with b still unfetched, b's parents are a and a2; processing the
\* fetched tail b takes b's count off both a and a2; a2 is completed exactly
\* when b and c both are; a is completed too and the active set ends empty.
C7_ParentAddedMidFlight ==
    [][(Len(trace') >= 2 /\ SubSeq(trace', 1, 2) = <<"a", "a2">>) =>
          /\ trace' = <<"a", "a2">> =>
                /\ "b" \in DOMAIN prefetches'
                /\ prefetches'["b"].parents =
                      {<<"n0", Ptr("a", "n0")>>, <<"n0", Ptr("a2", "n0")>>}
          /\ (trace' = Append(trace, "b") /\ "b" \in Active) =>
                /\ Decremented("a", prefetches["b"].subtreeBlockCount)
                /\ Decremented("a2", prefetches["b"].subtreeBlockCount)
          /\ "a2" \in Range(completed') <=> {"b", "c"} \subseteq Range(completed')
          /\ {"b", "c"} \subseteq Range(trace') =>
                /\ DOMAIN prefetches' = {}
                /\ "a" \in Range(completed')]_vars

C7_Witness ==
    /\ trace = <<"a", "a2", "b", "c">>
    /\ Active = {}
    /\ Range(completed) = {"a", "a2", "b", "c"}

\* The active records above id: its parents under the RefNonces in nonces
\* and all their ancestors.
RECURSIVE Up(_, _)
Up(pf, ids) ==
    LET more == ids \cup (UNION {ParentIDs(pf, y) : y \in ids} \cap DOMAIN pf)
    IN  IF more = ids THEN ids ELSE Up(pf, more)

ChainAbove(pf, id, nonces) ==
    Up(pf, {e[2][1] : e \in {x \in pf[id].parents : x[1] \in nonces}} \cap DOMAIN pf)

\* The worker takes CancelPrefetch(ptr) off the cancel queue in this step.
CancelProcessed(ptr) ==
    /\ prefetchCancelCh # <<>>
    /\ Head(prefetchCancelCh) = ptr
    /\ prefetchCancelCh' = Tail(prefetchCancelCh)

\* C8: when an active record x has parents under RefNonce n1 and under other
\* RefNonces, on disjoint ancestor chains, processing CancelPrefetch(x, n1)
\* leaves x active with only its n1 bucket removed, and leaves x's counter,
\* its other buckets and every record on their ancestor chains unchanged.
C8_CancelIsolation ==
    [][\A x \in Active : \A n1 \in NoncesOf(prefetches[x]) :
          LET others == NoncesOf(prefetches[x]) \ {n1}
              chain1 == ChainAbove(prefetches, x, {n1})
              chain2 == ChainAbove(prefetches, x, others)
          IN  (/\ CancelProcessed(Ptr(x, n1))
               /\ others # {}
               /\ chain1 \cap chain2 = {})
              => /\ x \in DOMAIN prefetches'
                 /\ prefetches'[x] =
                       [prefetches[x] EXCEPT !.parents = {e \in @ : e[1] # n1}]
                 /\ \A y \in chain2 :
                       y \in DOMAIN prefetches' /\ prefetches'[y] = prefetches[y]]_vars

C8_Witness ==
    /\ topo = "nonces"
    /\ budget.cancel = MaxEnv - 1 /\ prefetchCancelCh = <<>>
    /\ budget.noRoom = MaxEnv /\ budget.fail = MaxEnv
    /\ {"p1", "p2"} \subseteq fetched
    /\ "x" \in Active /\ NoncesOf(prefetches["x"]) = {"n2"}
    /\ "p2" \in Active /\ "p1" \notin Active
    /\ cache["p1"] # "Finished"

Armed(id) == id \in DOMAIN rescheduled /\ rescheduled[id].timer = "armed"

\* C9: when a top block has been moved to the rescheduled map with an armed
\* backoff timer and the worker processes a CancelPrefetch for it before the
\* timer fires, the timer is stopped: it is no longer armed afterwards, so
\* it cannot enqueue a request for the block.
C9_CancelStopsTimer ==
    [][\A ptr \in PtrsOf(topo) :
          (/\ Armed(ptr[1])
           /\ ptr[1] \notin Active
           /\ CancelProcessed(ptr))
          => ~Armed(ptr[1])']_vars

\* The worker takes a request for id off the request queue in this step.
RequestProcessed(id) ==
    /\ prefetchRequestCh # <<>>
    /\ Head(prefetchRequestCh).ptr[1] = id
    /\ prefetchRequestCh' = Tail(prefetchRequestCh)

\* ... a non-finished sync request of the non-tail block id, and the disk
\* cache answers "no room".
NoRoomHandled(id) ==
    /\ RequestProcessed(id)
    /\ ~Head(prefetchRequestCh).wait
    /\ Head(prefetchRequestCh).prefetchStatus # "Finished"
    /\ Sync(Head(prefetchRequestCh).action)
    /\ ~IsTail(topo, id)
    /\ budget'.noRoom < budget.noRoom

\* The worker takes a reschedule event for the top block id off its queue.
TopRescheduleProcessed(id) ==
    /\ prefetchRescheduleCh # <<>>
    /\ Head(prefetchRescheduleCh).ptr[1] = id
    /\ prefetchRescheduleCh' = Tail(prefetchRescheduleCh)
    /\ id \in Active => ParentIDs(prefetches, id) \cap Active = {}

Rescheduling(id) ==
    \E i \in DOMAIN prefetchRescheduleCh : prefetchRescheduleCh[i].ptr[1] = id

Queued(id) == \E i \in DOMAIN prefetchRequestCh : prefetchRequestCh[i].ptr[1] = id

WaitHandled(id) ==
    /\ RequestProcessed(id)
    /\ Head(prefetchRequestCh).wait

\* C11: the worker answers a wait query for block B with the wait signal of
\* B's record if B is active when it handles the query, and with the signal
\* that is already raised if B is not; handling the query issues no
\* retrieval and touches no record, so no child is enumerated.
C11_WaitQueryAnswer ==
    [][\A id \in Blocks(topo) :
          WaitHandled(id) =>
             /\ waiters' = waiters \cup
                    {[id |-> id,
                      signal |-> IF id \in Active THEN "open" ELSE "closedCh"]}
             /\ UNCHANGED <<prefetches, inFlightFetches, fetched, cache,
                            prefetchCancelCh, prefetchRescheduleCh>>]_vars

\* Both answers have been given: an un-raised signal for the active r, the
\* raised one for a when a was not active.
C11_Witness ==
    /\ [id |-> "r", signal |-> "open"] \in waiters
    /\ [id |-> "a", signal |-> "closedCh"] \in waiters

\* An answer that carries the un-raised wait signal of block id's record.
Pending(id) == [id |-> id, signal |-> "open"]

\* C12: the wait signal of an active record is raised only when the
\* record's subtree_block_count has reached 0; no other event raises it.
C12_RaisedOnlyAtZero ==
    [][\A id \in Blocks(topo) :
          Pending(id) \in waiters /\ Pending(id) \notin waiters'
             => [id |-> id, signal |-> "complete"] \in waiters']_vars

\* C12, amended: the wait signal of an active record is raised exactly when
\* the record leaves the active set, which happens when its count reaches 0,
\* when a cancel removes it, or when it is rescheduled; a signal that has
\* been handed out and is not raised belongs to a record that is active.
C12_RaisedWhenRecordLeaves ==
    [][\A id \in Blocks(topo) :
          Pending(id) \in waiters =>
             /\ id \in Active
             /\ Pending(id) \in waiters' <=> id \in Active'
             /\ Pending(id) \notin waiters' =>
                   \E why \in {"complete", "cancel", "reschedule"} :
                      [id |-> id, signal |-> why] \in waiters']_vars

\* A caller holds the wait signal of r, raised by a cancel of r.
C12_Witness == [id |-> "r", signal |-> "cancel"] \in waiters

\* C13: when one producer has called ProcessBlockForPrefetch for block r and
\* afterwards WaitChannelForBlockPrefetch for r, the worker has processed
\* the prefetch request for r by the time it answers the wait query.
C13_RequestBeforeWaitReply ==
    [][WaitHandled("r") => "r" \in Range(trace)]_vars

\* A step that is a call of Shutdown.
ShutdownCalled == budget'.shutdown < budget.shutdown

\* C14: Shutdown is idempotent: the first call closes the shutdown signal,
\* a later call closes nothing and changes nothing, and no call fails.
C14_ShutdownIdempotent ==
    [][ShutdownCalled =>
          /\ panicked' = "none"
          /\ phase = "running" => phase' = "shutdown"
          /\ phase # "running" =>
                UNCHANGED <<topo, prefetches, rescheduled, prefetchRequestCh,
                            prefetchCancelCh, prefetchRescheduleCh, inFlightFetches,
                            cache, fetched, phase, panicked, completed, trace,
                            waiters>>]_vars

\* Shutdown has been called twice and the process lives.
C14_Witness == budget.shutdown = MaxEnv - 2 /\ phase # "running" /\ Alive

\* C15: once the done signal has fired, every retrieval the worker issued
\* has been awaited and no event that a public call or a timer callback
\* enqueued is left in the request, cancel or reschedule queue.
C15_DrainedOnceDone ==
    phase = "done" =>
       /\ inFlightFetches = {}
       /\ prefetchRequestCh = <<>>
       /\ prefetchCancelCh = <<>>
       /\ prefetchRescheduleCh = <<>>

\* C16: by the time the done signal fires, Shutdown has cancelled every
\* active prefetch: no record is left active and every wait signal that was
\* handed out has been raised.
C16_ShutdownCancelsActive ==
    phase = "done" =>
       /\ Active = {}
       /\ \A w \in waiters : w.signal # "open"

\* A step that is a call of ProcessBlockForPrefetch, CancelPrefetch or
\* WaitChannelForBlockPrefetch by a user.
ApiCalled ==
    \/ budget'.user < budget.user
    \/ budget'.cancel < budget.cancel
    \/ budget'.wait < budget.wait

\* C17: once Shutdown has been called, a public call adds no event to any
\* queue: CancelPrefetch returns without enqueuing and
\* WaitChannelForBlockPrefetch returns "Already shut down".
C17_NoEnqueueAfterShutdown ==
    [][phase # "running" /\ ApiCalled =>
          UNCHANGED <<prefetchRequestCh, prefetchCancelCh, prefetchRescheduleCh>>]_vars

\* The request at the head of the request queue, if there is one.
Heads == IF prefetchRequestCh = <<>> THEN {} ELSE {Head(prefetchRequestCh)}

\* The worker takes the finished request req off the request queue, and no
\* retrieval or cache write fails in the event.
FinishedHandled(req) ==
    /\ RequestProcessed(req.ptr[1])
    /\ req.prefetchStatus = "Finished" /\ ~req.wait
    /\ budget'.fail = budget.fail

\* C18: processing a request with prefetch status Finished a second time, right
\* after it was processed once, changes neither the active map (records,
\* counters, parent edges) nor the rescheduled map.
C18_FinishedIdempotent ==
    [][\A req \in Heads :
          FinishedHandled(req) /\ panicked' = "none" =>
             \A S2 \in RequestOutcomes(req, TRUE, TRUE, TRUE)' :
                /\ S2.pf = prefetches'
                /\ S2.rs = rescheduled'
                /\ S2.panic = "none"]_vars

\* The top block r was requested again with status Finished while its record
\* counted its two children, and the worker has processed that request: r
\* is gone, its children are still active under it.
C18_Witness ==
    /\ topo = "chain" /\ prefetchRequestCh = <<>>
    /\ budget.cancel = MaxEnv /\ budget.fail = MaxEnv /\ budget.noRoom = MaxEnv
    /\ cache["r"] = "Finished"
    /\ Active = {"a", "t"}
    /\ \A y \in Active : ParentIDs(prefetches, y) = {"r"}
    /\ \A y \in Active : ~prefetches[y].subtreeTriggered

\* C19: processing a request with status Finished for an active block
\* creates no child record and issues no retrieval, removes the block's
\* record, and takes the block's whole count off each of its ancestors,
\* completing those that reach 0; for a block that is not active the active
\* map is left as it is.
C19_FinishedShortCircuit ==
    [][\A req \in Heads :
          LET id == req.ptr[1]
              anc == Up(prefetches, ParentIDs(prefetches, id) \cap Active)
              c == prefetches[id].subtreeBlockCount
              count(pf, y) == pf[y].subtreeBlockCount
          IN  FinishedHandled(req) =>
                IF id \in Active
                THEN /\ panicked' = "none"
                     /\ Active' \subseteq Active \ {id}
                     /\ inFlightFetches' = inFlightFetches
                     /\ \A y \in Active \ {id} :
                          IF y \notin anc
                          THEN y \in Active' /\ prefetches'[y] = prefetches[y]
                          ELSE IF count(prefetches, y) = c
                          THEN y \notin Active'
                          ELSE /\ y \in Active'
                               /\ count(prefetches', y) = count(prefetches, y) - c
                ELSE prefetches' = prefetches /\ inFlightFetches' = inFlightFetches]_vars

\* a was prefetched to the end, then registered again as a child of r and
\* fetched with status Finished; the worker has taken a's record off r.
C19_Witness ==
    /\ trace = <<"a", "b", "r", "a">>
    /\ budget.cancel = MaxEnv /\ budget.fail = MaxEnv
    /\ "a" \notin Active /\ "b" \notin Active
    /\ "r" \in Active /\ prefetches["r"].subtreeBlockCount = 1

\* C20: between worker events no active record has a subtree_block_count
\* of 0: a record that reaches 0 is removed and its wait signal raised.
C20_NoZeroCountRecord ==
    \A id \in Active : prefetches[id].subtreeBlockCount # 0

\* A request for the root a is in the request queue...
RootRequested ==
    \E i \in DOMAIN prefetchRequestCh :
       prefetchRequestCh[i].ptr[1] = "a" /\ ~prefetchRequestCh[i].wait

\* ... as a deep sync.
RootDeepSyncRequested ==
    \E i \in DOMAIN prefetchRequestCh :
       /\ prefetchRequestCh[i].ptr[1] = "a" /\ ~prefetchRequestCh[i].wait
       /\ DeepSync(prefetchRequestCh[i].action)

\* The prefetch of the root has come to its end.
RootFinished ==
    /\ Active = {}
    /\ cache["a"] = "Finished"
    /\ \A w \in waiters : w.signal # "open"

RECURSIVE SumCounts(_, _)
SumCounts(pf, ids) ==
    IF ids = {} THEN 0
    ELSE LET y == CHOOSE y \in ids : TRUE
         IN  pf[y].subtreeBlockCount + SumCounts(pf, ids \ {y})

\* C22: between worker events the count of every active record is 1 if the
\* record's own block is not fetched yet (subtreeTriggered is false), else
\* 0, plus the counts of the active records that list it as a parent.
C22_CounterConservation ==
    \A id \in Active :
       prefetches[id].subtreeBlockCount =
          (IF prefetches[id].subtreeTriggered THEN 0 ELSE 1)
          + SumCounts(prefetches, {y \in Active : id \in ParentIDs(prefetches, y)})

\* C23: when the worker enumerates the children of a block, the block is in
\* the active set: request() never finds the parent missing and never
\* panics over it, also when a redundant request with a changed action finds
\* a triggered record with count 0 and cancels it up the tree first.
C23_ParentKnownAtEnumeration ==
    panicked # "prefetcher doesn't know about parent block"

\* C24: every active record whose subtree is not triggered has a count of at
\* least 1, and the worker never panics over a fetched block that "was in
\* the tree, wasn't triggered, but had a block count of 0".
C24_UntriggeredCountsItself ==
    /\ \A id \in DOMAIN prefetches :
          ~prefetches[id].subtreeTriggered => prefetches[id].subtreeBlockCount >= 1
    /\ panicked # "prefetch was in the tree, wasn't triggered, but had a block count of 0"

\* C25: handling a wait query is read-only: the active map, the rescheduled
\* map and every armed backoff timer are as before; a wait query for a
\* rescheduled block does not stop that block's pending timer.
C25_WaitQueryReadOnly ==
    [][\A id \in Blocks(topo) :
          WaitHandled(id) =>
             /\ prefetches' = prefetches
             /\ rescheduled' = rescheduled]_vars

\* The pointers a cancel walk from the pointers V visits: the parents that
\* an active record lists under the RefNonce of a visited pointer, as long
\* as they are active themselves.
RECURSIVE CancelVisited(_, _)
CancelVisited(pf, V) ==
    LET more == V \cup
                {e[2] : e \in UNION {{x \in pf[q[1]].parents : x[1] = q[2]} :
                                     q \in {v \in V : v[1] \in DOMAIN pf}}}
        live == {v \in more : v[1] \in DOMAIN pf}
    IN  IF live = V THEN V ELSE CancelVisited(pf, live)

\* C26: processing CancelPrefetch(ptr) for an active block removes the
\* bucket of ptr's RefNonce and walks up through the parents recorded under
\* that RefNonce, doing the same at each ancestor.  A visited record left
\* without parents leaves the active map and the rescheduled map and its
\* wait signal is raised; a visited record that keeps another bucket stays
\* active with its counter unchanged; no other record changes.
C26_CancelWalk ==
    [][\A ptr \in PtrsOf(topo) :
          (CancelProcessed(ptr) /\ ptr[1] \in Active) =>
             LET V == CancelVisited(prefetches, {ptr})
             IN  \A id \in Active :
                    LET rest == {e \in prefetches[id].parents : <<id, e[1]>> \notin V}
                    IN  IF id \notin {v[1] : v \in V}
                        THEN id \in DOMAIN prefetches'
                             /\ prefetches'[id] = prefetches[id]
                        ELSE IF rest = {}
                        THEN /\ id \notin DOMAIN prefetches'
                             /\ id \notin DOMAIN rescheduled'
                             /\ Pending(id) \in waiters =>
                                   /\ Pending(id) \notin waiters'
                                   /\ [id |-> id, signal |-> "cancel"] \in waiters'
                        ELSE /\ id \in DOMAIN prefetches'
                             /\ prefetches'[id] =
                                   [prefetches[id] EXCEPT !.parents = rest]]_vars

\* x@n1 has been cancelled while x had parents under n1 and n2 and a caller
\* held p1's wait signal: p1 is gone and the signal raised, x is still
\* active under n2 with g and p2 above it.
C26_Witness ==
    /\ topo = "nonces" /\ prefetchCancelCh = <<>> /\ budget.cancel = MaxEnv - 2
    /\ [id |-> "p1", signal |-> "cancel"] \in waiters
    /\ "p1" \notin Active /\ {"x", "p2", "g"} \subseteq Active
    /\ NoncesOf(prefetches["x"]) = {"n2"}

\* The worker takes a reschedule event for block id off its queue.
RescheduleProcessed(id) ==
    /\ prefetchRescheduleCh # <<>>
    /\ Head(prefetchRescheduleCh).ptr[1] = id
    /\ prefetchRescheduleCh' = Tail(prefetchRescheduleCh)

\* The active map as the reschedule case walks it: a block that is not
\* active gets a record of its own first, an active one the event's request.
AtReschedule(req) ==
    IF req.ptr[1] \in Active THEN [prefetches EXCEPT ![req.ptr[1]].req = req]
    ELSE MapPut(prefetches, req.ptr[1], newPrefetch(1, FALSE, req))

C28_OneTimerPerBlock ==
    /\ [](\A id \in Blocks(topo) : timers[id] = (IF Armed(id) THEN 1 ELSE 0))
    /\ [][\A id \in Blocks(topo) :
             (TopRescheduleProcessed(id) /\ Armed(id)) =>
                /\ rescheduled'[id] = rescheduled[id]
                /\ timers'[id] = timers[id]]_vars

\* Two reschedule events for r have been processed; the second found the
\* timer of the first still armed, and it is armed now.
C28_Witness ==
    /\ phase = "running" /\ Alive
    /\ budget.noRoom = MaxEnv - 2 /\ budget.user = MaxEnv - 3
    /\ prefetchRescheduleCh = <<>> /\ prefetchRequestCh = <<>>
    /\ Armed("r") /\ timers["r"] = 1 /\ rescheduled["r"].off = 1
    /\ Active = {}

\* The blocks of the tree under id that the worker has not handled as
\* fetched yet.
Unfetched(id) == Subtree(topo, id) \ fetched

\* Both paths of the diamond are in the prefetch tree: d lists b and c as
\* parents, and both list a.
DiamondActive ==
    /\ {"a", "b", "c", "d", "l"} \subseteq Active
    /\ ParentIDs(prefetches, "d") = {"b", "c"}
    /\ ParentIDs(prefetches, "b") = {"a"} /\ ParentIDs(prefetches, "c") = {"a"}

C30_NoTimerAfterAlmostDone ==
    phase \in {"shuttingDown", "done"} =>
       \A id \in Blocks(topo) : timers[id] = 0 /\ ~Armed(id)

\* C31: when the solo retrieval at the start of handling a prefetch request
\* fails, the event leaves the active prefetches exactly as they were (no
\* record created or removed, no counter, flag or parent changed), and the
\* worker does not panic and keeps serving.
C31_FailedRetrievalKeepsForest ==
    /\ [](\A req \in Heads : ~req.wait =>
             \A S \in RequestOutcomes(req, FALSE, TRUE, TRUE) :
                S.pf = prefetches /\ S.panic = "none" /\ S.closed = <<>>)
    /\ [][\A id \in Blocks(topo) :
             (/\ RequestProcessed(id) /\ ~Head(prefetchRequestCh).wait
              /\ id \notin fetched') =>
                /\ prefetches' = prefetches
                /\ panicked' = panicked /\ phase' = phase
                /\ budget'.fail = budget.fail - 1]_vars

\* The retrieval for a's request failed while r's tree was active, and the
\* worker has handled another request since.
C31_Witness ==
    /\ Alive /\ "a" \notin fetched /\ {"r", "a"} \subseteq Active
    /\ Len(trace) >= 3 /\ trace[1] = "r" /\ trace[2] = "a"

\* C32: when completePrefetch brings a record's counter to 0 the record
\* leaves the active map and the rescheduled map and is closed, whether or
\* not the final retrieval or the cache write fails; on a failure the block
\* is not written Finished, and the completion walk still goes on to the
\* other records: none that the walk visits is left active with count 0.
C32_CompletionDespiteFailure ==
    /\ [](\A id \in Active :
             \A S \in completePrefetch(prefetches[id].subtreeBlockCount, id, Work) :
                /\ id \notin DOMAIN S.pf /\ id \notin DOMAIN S.rs
                /\ S.closed = <<<<id, "complete">>>>
                /\ S.timers[id] = 0
                /\ S.fails > 0 => S.cache = cache /\ S.done = <<>>)
    /\ [][\A id \in Active :
             (/\ RequestProcessed(id) /\ ~Head(prefetchRequestCh).wait
              /\ prefetches' # prefetches /\ panicked' = "none"
              /\ Head(prefetchRequestCh).prefetchStatus = "Finished" \/ IsTail(topo, id)
              /\ budget'.fail < budget.fail) =>
                LET V == Up(prefetches, {id})
                    out == V \ DOMAIN prefetches'
                IN  /\ id \in out
                    /\ out \cap DOMAIN rescheduled' = {}
                    /\ \A v \in V \ out : prefetches'[v].subtreeBlockCount > 0
                    /\ Cardinality({v \in out : cache'[v] = cache[v]})
                          >= budget.fail - budget'.fail]_vars

\* The deep sync of r has come to its end with one failure, at the
\* completion of a: a is not written Finished, while b, completed after a
\* in the same walk, and r are.
C32_Witness ==
    /\ Alive /\ Active = {} /\ budget.fail = MaxEnv - 1 /\ budget.cancel = MaxEnv
    /\ {"r", "a", "b", "t"} \subseteq fetched
    /\ cache["a"] # "Finished"
    /\ cache["b"] = "Finished" /\ cache["r"] = "Finished"

\* The head of the request queue is a wait query whose caller's context is
\* cancelled.
AbandonedHead ==
    /\ prefetchRequestCh # <<>>
    /\ Head(prefetchRequestCh).wait
    /\ Head(prefetchRequestCh).caller = "cancelled"

\* C33: a call of WaitChannelForBlockPrefetch whose context is cancelled
\* changes neither the active map nor the rescheduled map nor an armed
\* backoff timer, whether its query was enqueued or not, and the worker can
\* always take an abandoned query off the queue and reply to it.
C33_CancelledWaitLeavesState ==
    /\ [][UserWaitCancelled =>
            /\ prefetches' = prefetches /\ rescheduled' = rescheduled
            /\ timers' = timers]_vars
    /\ [][\A id \in Blocks(topo) :
            (AbandonedHead /\ WaitHandled(id)) =>
               /\ prefetches' = prefetches /\ rescheduled' = rescheduled
               /\ timers' = timers]_vars
    /\ []((AbandonedHead /\ Serving) => ENABLED WorkerRequest)

====
